---------------------------- MODULE Spec2Model ----------------------------
(***************************************************************************)
(* A model of GraphQLToOpenAPIConverter (src/lib/GraphQLToOpenAPIConverter *)
(* .ts): the constructor, toOpenAPI and the visitor handlers it passes to  *)
(* graphql's visit, run over a small schema and a catalogue of queries.    *)
(*                                                                         *)
(* JavaScript objects live in a heap (a sequence of records addressed by   *)
(* their index) so that two places holding the same object see each        *)
(* other's writes; 0 is undefined.                                         *)
(***************************************************************************)
EXTENDS Integers, Sequences, FiniteSets, TLC

VARIABLES
    pc,               \* "new" | "ready" | "walking" | "ctorThrew"
    args,             \* the arguments of the constructor call (<<>> after it)
    graphqlSchema,    \* this.graphqlSchema: "unset" | "built"
    schemaError,      \* this.schemaError: "" (unset) | the stored build error
    onUnknownScalar,  \* this.onUnknownScalar: "default" | "dateResolver"
    scalarConfig,     \* this.scalarConfig: scalar name -> heap reference
    heap,             \* the objects allocated so far
    ncalls,           \* toOpenAPI calls made on this instance
    query,            \* the query of the call in progress (index in Queries)
    events,           \* the enter/leave events visit will dispatch
    pos,              \* the next event
    paths,            \* openApiSchema.paths: key -> operation definition
    error,            \* the visitor's error variable
    operationDef,     \* the visitor's operationDef variable (a key of paths)
    currentSelection, \* the visitor's stack of frames, top first
    fragments,        \* the visitor's fragment table: name -> heap reference
    rec,              \* the activations of recurseInputType, innermost first
    cur,              \* book-keeping of the call in progress
    invoked,          \* scalar name -> calls of onUnknownScalar with it so far
    last,             \* the record of the last call, once it is over
    prev              \* the record of the call before it

vars == <<pc, args, graphqlSchema, schemaError, onUnknownScalar, scalarConfig,
          heap, ncalls, query, events, pos, paths, error, operationDef,
          currentSelection, fragments, rec, cur, invoked, last, prev>>

-----------------------------------------------------------------------------
(* Bounds of the model *)

\* toOpenAPI calls made on one instance
MaxCalls == 2

\* nesting to which a returned document is unfolded into a value
MaxUnfold == 9

-----------------------------------------------------------------------------
(* GraphQL types: named types and the List and NonNull wrappers *)

Named(n) == [k |-> "Named", name |-> n, of |-> <<>>]

GraphQLList(t) == [k |-> "List", name |-> "", of |-> <<t>>]

GraphQLNonNull(t) == [k |-> "NonNull", name |-> "", of |-> <<t>>]

ofType(t) == t.of[1]

\* type.toString(), as the sequence of its tokens
RECURSIVE TypeToString(_)
TypeToString(t) ==
    CASE t.k = "Named" -> <<t.name>>
      [] t.k = "List" -> <<"[">> \o TypeToString(ofType(t)) \o <<"]">>
      [] t.k = "NonNull" -> TypeToString(ofType(t)) \o <<"!">>

\* typeName.replace(/[!]$/, '')
StripBang(s) ==
    IF Len(s) > 0 /\ s[Len(s)] = "!" THEN SubSeq(s, 1, Len(s) - 1) ELSE s

RECURSIVE getNamedType(_)
getNamedType(t) == IF t.k = "Named" THEN t.name ELSE getNamedType(ofType(t))

-----------------------------------------------------------------------------
(* The schema the instances are built from *)

FieldDef(n, t, d) == [name |-> n, type |-> t, description |-> d]

\* the kind of each named type (which class the instanceof tests see)
TypeKind ==
    [ID |-> "Scalar", String |-> "Scalar", Int |-> "Scalar",
     Float |-> "Scalar", Boolean |-> "Scalar",
     Date |-> "Scalar", Url |-> "Scalar",
     Color |-> "Enum",
     Query |-> "Object", Hero |-> "Object", Droid |-> "Object",
     Being |-> "Union", Character |-> "Interface",
     Filter |-> "InputObject", Chain |-> "InputObject"]

EnumValues == [Color |-> <<"RED", "GREEN">>]

UnionMembers == [Being |-> {"Hero", "Droid"}]

\* the object types that implement an interface
Implementations == [Character |-> {"Hero"}]

\* getFields() of the object and input object types, in declaration order
TypeFields ==
    [Query |-> <<
        FieldDef("count", Named("Int"), ""),
        FieldDef("title", GraphQLNonNull(Named("String")), "the title"),
        FieldDef("tags", GraphQLList(GraphQLNonNull(Named("String"))), ""),
        FieldDef("born", Named("Date"), ""),
        FieldDef("bornNN", GraphQLNonNull(Named("Date")), ""),
        FieldDef("dates", GraphQLList(Named("Date")), ""),
        FieldDef("home", Named("Url"), ""),
        FieldDef("color", Named("Color"), ""),
        FieldDef("colorNN", GraphQLNonNull(Named("Color")), ""),
        FieldDef("hero", Named("Hero"), "the hero"),
        FieldDef("heroNN", GraphQLNonNull(Named("Hero")), ""),
        FieldDef("heroes", GraphQLList(Named("Hero")), ""),
        FieldDef("heroesNN",
                 GraphQLNonNull(GraphQLList(GraphQLNonNull(Named("Hero")))), ""),
        FieldDef("being", Named("Being"), ""),
        FieldDef("beingNN", GraphQLNonNull(Named("Being")), ""),
        FieldDef("beings", GraphQLList(Named("Being")), "")>>,
     Hero |-> <<
        FieldDef("name", GraphQLNonNull(Named("String")), ""),
        FieldDef("nick", Named("String"), ""),
        FieldDef("born", Named("Date"), ""),
        FieldDef("friend", Named("Hero"), "")>>,
     Droid |-> <<
        FieldDef("model", Named("String"), "")>>,
     Character |-> <<
        FieldDef("name", GraphQLNonNull(Named("String")), "")>>,
     Filter |-> <<
        FieldDef("since", Named("Date"), "since when"),
        FieldDef("color", Named("Color"), ""),
        FieldDef("limit", GraphQLNonNull(Named("Int")), ""),
        FieldDef("until", GraphQLNonNull(Named("Date")), "")>>,
     Chain |-> <<
        FieldDef("next", Named("Chain"), "")>>]

HasField(typeName, fieldName) ==
    /\ typeName \in DOMAIN TypeFields
    /\ \E i \in 1..Len(TypeFields[typeName]) :
          TypeFields[typeName][i].name = fieldName

\* typeInfo.getFieldDef() for a field of the parent type in scope
getFieldDef(typeName, fieldName) ==
    LET fs == TypeFields[typeName]
    IN fs[CHOOSE i \in 1..Len(fs) : fs[i].name = fieldName]

-----------------------------------------------------------------------------
(* Values of a node's type key: undefined, a string, or an array *)

TUndef == [k |-> "undef", s |-> "", a |-> <<>>]

TStr(str) == [k |-> "str", s |-> str, a |-> <<>>]

TArr(arr) == [k |-> "arr", s |-> "", a |-> arr]

isOfTypeOrContains(typeDef, typeName) ==
    CASE typeDef.k = "undef" -> FALSE
      [] typeDef.k = "str" -> typeName = typeDef.s
      [] typeDef.k = "arr" ->
            \E i \in 1..Len(typeDef.a) : typeDef.a[i] = TStr(typeName)

-----------------------------------------------------------------------------
(* Heap objects.  kind "node" is an output schema node, "props" a          *)
(* properties object (map), "array" an anyOf array (elems).                *)

Node(type, items, properties, anyOf, enum, description) ==
    [kind |-> "node", type |-> type, items |-> items,
     properties |-> properties, anyOf |-> anyOf, enum |-> enum,
     description |-> description, map |-> <<>>, elems |-> <<>>]

Props(map) ==
    [kind |-> "props", type |-> TUndef, items |-> 0, properties |-> 0,
     anyOf |-> 0, enum |-> <<>>, description |-> "", map |-> map,
     elems |-> <<>>]

Array(elems) ==
    [kind |-> "array", type |-> TUndef, items |-> 0, properties |-> 0,
     anyOf |-> 0, enum |-> <<>>, description |-> "", map |-> <<>>,
     elems |-> elems]

\* the empty object {}
NoProps == Props(<<>>)

\* obj[name] = ref on a properties object
PutProp(obj, name, ref) ==
    [obj EXCEPT !.map =
        [n \in (DOMAIN obj.map) \cup {name} |->
            IF n = name THEN ref ELSE obj.map[n]]]

\* the items objects of the typeMap constant, allocated once for the module
TypeMapItems ==
    <<Node(TArr(<<TStr("string"), TStr("null")>>), 0, 0, 0, <<>>, ""),
      Node(TStr("string"), 0, 0, 0, <<>>, ""),
      Node(TStr("string"), 0, 0, 0, <<>>, ""),
      Node(TArr(<<TStr("string"), TStr("null")>>), 0, 0, 0, <<>>, ""),
      Node(TArr(<<TStr("integer"), TStr("null")>>), 0, 0, 0, <<>>, ""),
      Node(TStr("integer"), 0, 0, 0, <<>>, ""),
      Node(TArr(<<TStr("number"), TStr("null")>>), 0, 0, 0, <<>>, ""),
      Node(TStr("number"), 0, 0, 0, <<>>, ""),
      Node(TArr(<<TStr("boolean"), TStr("null")>>), 0, 0, 0, <<>>, ""),
      Node(TStr("boolean"), 0, 0, 0, <<>>, "")>>

\* typeMap: type name -> {type, items}; items refers into TypeMapItems
typeMap ==
    (<<"ID">> :> [type |-> TStr("string"), items |-> 0])
 @@ (<<"[", "ID", "]">> :> [type |-> TStr("array"), items |-> 1])
 @@ (<<"[", "ID", "!", "]">> :> [type |-> TStr("array"), items |-> 2])
 @@ (<<"String">> :> [type |-> TStr("string"), items |-> 0])
 @@ (<<"[", "String", "!", "]">> :> [type |-> TStr("array"), items |-> 3])
 @@ (<<"[", "String", "]">> :> [type |-> TStr("array"), items |-> 4])
 @@ (<<"[", "Int", "]">> :> [type |-> TStr("array"), items |-> 5])
 @@ (<<"[", "Int", "!", "]">> :> [type |-> TStr("array"), items |-> 6])
 @@ (<<"[", "Float", "]">> :> [type |-> TStr("array"), items |-> 7])
 @@ (<<"[", "Float", "!", "]">> :> [type |-> TStr("array"), items |-> 8])
 @@ (<<"[", "Boolean", "]">> :> [type |-> TStr("array"), items |-> 9])
 @@ (<<"[", "Boolean", "!", "]">> :> [type |-> TStr("array"), items |-> 10])
 @@ (<<"Int">> :> [type |-> TStr("integer"), items |-> 0])
 @@ (<<"Float">> :> [type |-> TStr("number"), items |-> 0])
 @@ (<<"Boolean">> :> [type |-> TStr("boolean"), items |-> 0])

-----------------------------------------------------------------------------
(* The memory a handler works on: the heap, the scalar cache, and the      *)
(* exception in flight (<<>> when there is none).                          *)

\* asked lists the names onUnknownScalar has been called with in the step
Mem(h, c, t) == [heap |-> h, cache |-> c, thrown |-> t, asked |-> <<>>]

NoThrow == <<>>

Threw(m) == m.thrown # NoThrow

\* the result of a step that yields an object
Ret(m, ref) == [m |-> m, ref |-> ref]

Throw(m, name, what) == Ret([m EXCEPT !.thrown = <<name, what>>], 0)

\* new object
Alloc(m, obj) ==
    Ret([m EXCEPT !.heap = Append(m.heap, obj)], Len(m.heap) + 1)


-----------------------------------------------------------------------------
(* The unknown-scalar callbacks an instance can be constructed with.  A    *)
(* callback yields <<>> (nothing) or <<node>>, a new object.               *)

Callback(cb, typeName) ==
    CASE cb = "default" -> <<>>
      [] cb = "dateResolver" ->
            IF typeName = "Date"
            THEN <<Node(TStr("string"), 0, 0, 0, <<>>, "")>>
            ELSE <<>>

\* a getScalarType that takes an empty node for a scalar nobody resolves
\* a lookup that never finds the name
NeverCached(m, typeName) == FALSE

\* if (scalarConfig[typeName])
Cached(m, typeName) == typeName \in DOMAIN m.cache

\* onUnknownScalar is called with typeName
Ask(m, typeName) == [m EXCEPT !.asked = Append(@, typeName)]

\* a getScalarType that takes an empty node for a scalar nobody resolves
getScalarTypeOrEmpty(m, typeName, cb) ==
    IF Cached(m, typeName)
    THEN Ret(m, m.cache[typeName])
    ELSE LET r == Callback(cb, typeName)
             a == Alloc(Ask(m, typeName),
                        IF r # <<>> THEN r[1]
                        ELSE Node(TUndef, 0, 0, 0, <<>>, ""))
         IN Ret([a.m EXCEPT !.cache = (typeName :> a.ref) @@ m.cache], a.ref)

getScalarType(m, typeName, cb) ==
    IF Cached(m, typeName)
    THEN Ret(m, m.cache[typeName])
    ELSE LET r == Callback(cb, typeName)
         IN IF r # <<>>
            THEN LET a == Alloc(Ask(m, typeName), r[1])
                 IN Ret([a.m EXCEPT !.cache = (typeName :> a.ref) @@ m.cache],
                        a.ref)
            ELSE Throw(Ask(m, typeName), "UnknownScalarError", typeName)

\* which instanceof test a type passes
KindOf(t) == IF t.k = "Named" THEN TypeKind[t.name] ELSE t.k

\* the GraphQLList branch of fieldDefToOpenApiField
ListField(m, type, description, cb) ==
    LET inner == ofType(type)
        itemType == IF inner.k = "NonNull" THEN ofType(inner) ELSE inner
    IN CASE KindOf(itemType) = "Object" ->
              LET p == Alloc(m, NoProps)
                  i == Alloc(p.m, Node(TArr(<<TStr("object"), TStr("null")>>),
                                       0, p.ref, 0, <<>>, ""))
              IN Alloc(i.m, Node(TStr("array"), i.ref, 0, 0, <<>>, description))
         [] KindOf(itemType) = "Union" ->
              LET a == Alloc(m, Array(<<>>))
                  i == Alloc(a.m, Node(TUndef, 0, 0, a.ref, <<>>, ""))
              IN Alloc(i.m, Node(TStr("array"), i.ref, 0, 0, <<>>, description))
         [] KindOf(itemType) = "Scalar" ->
              LET s == getScalarType(m, itemType.name, cb)
              IN IF Threw(s.m) THEN s
                 ELSE LET old == s.m.heap[s.ref].type
                          h == [s.m.heap EXCEPT ![s.ref].type =
                                   TArr(<<old, TStr("null")>>)]
                      IN Alloc([s.m EXCEPT !.heap = h],
                               Node(TStr("array"), s.ref, 0, 0, <<>>,
                                    description))
         [] OTHER ->
              Alloc(m, Node(TStr("array"), 0, 0, 0, <<>>, description))

fieldDefToOpenApiField(m, fieldDef, cb) ==
    LET typeName == TypeToString(fieldDef.type)
        description == fieldDef.description
        nullable == fieldDef.type.k # "NonNull"
        type == IF nullable THEN fieldDef.type ELSE ofType(fieldDef.type)
        typeNameWithoutBang == StripBang(typeName)
    IN IF typeNameWithoutBang \in DOMAIN typeMap
       THEN LET retVal == typeMap[typeNameWithoutBang]
            IN Alloc(m, Node(IF nullable
                             THEN TArr(<<retVal.type, TStr("null")>>)
                             ELSE retVal.type,
                             retVal.items, 0, 0, <<>>, description))
       ELSE CASE type.k = "List" -> ListField(m, type, description, cb)
              [] KindOf(type) = "Object" ->
                    LET p == Alloc(m, NoProps)
                    IN Alloc(p.m, Node(TStr("object"), 0, p.ref, 0, <<>>,
                                       description))
              [] KindOf(type) = "Enum" ->
                    Alloc(m, Node(IF nullable
                                  THEN TArr(<<TStr("string"), TStr("null")>>)
                                  ELSE TStr("string"),
                                  0, 0, 0, EnumValues[type.name], description))
              [] KindOf(type) = "Union" ->
                    LET a == Alloc(m, Array(<<>>))
                    IN Alloc(a.m, Node(TUndef, 0, 0, a.ref, <<>>, description))
              [] OTHER ->
                    LET t == getScalarType(m, type.name, cb)
                    IN IF Threw(t.m) THEN t
                       ELSE Alloc(t.m, [t.m.heap[t.ref] EXCEPT
                                           !.description = description])

-----------------------------------------------------------------------------
(* Input types *)

\* recurseInputType's depth limit
DepthLimit == 50

\* a guard that lets every depth pass
NeverTooDeep(depth) == FALSE

\* if (depth > 50)
TooDeep(depth) == depth > DepthLimit

\* the description of the named types that have one
TypeDescription == [Filter |-> "a filter", Chain |-> "", Color |-> "a colour"]

\* ['x', 'null']
Nullable(prim) == TArr(<<TStr(prim), TStr("null")>>)

\* retVal.type.filter(e => e !== 'null'), collapsed when one entry is left
\* a non-null mapping that leaves the type as it is
KeepNull(type) == type

DropNull(type) ==
    IF type.k # "arr" THEN type
    ELSE LET notNull(e) == e # TStr("null")
             kept == SelectSeq(type.a, notNull)
         IN IF Len(kept) = 1 THEN kept[1] ELSE TArr(kept)

\* An activation of recurseInputType(obj, depth, ...).  stage says where it
\* stands: "fields" in the reduce over an input object's fields (properties
\* object p, field i next), "list" and "nonNull" waiting for the mapping of
\* the wrapped type, "done" returned ret.
Activation(obj, depth, stage, p, i, ret) ==
    [obj |-> obj, depth |-> depth, stage |-> stage, p |-> p, i |-> i,
     ret |-> ret]

Returned(act, ref) == [act EXCEPT !.stage = "done", !.ret = ref]

\* recurseInputType is entered: up to its first recursive call, or to its
\* return when it makes none.  Yields the memory and the activation.
recurseInputType(m, obj, depth, cb) ==
    LET act == Activation(obj, depth, "done", 0, 0, 0)
        leaf(node) == LET a == Alloc(m, node)
                      IN [m |-> a.m, act |-> Returned(act, a.ref)]
    IN IF TooDeep(depth)
       THEN [m |-> Throw(m, "Error", "depth limit exceeded").m, act |-> act]
       ELSE CASE KindOf(obj) = "InputObject" ->
                   LET p == Alloc(m, NoProps)
                   IN IF TypeFields[obj.name] = <<>>
                      THEN LET a == Alloc(p.m, Node(Nullable("object"), 0, p.ref,
                                                    0, <<>>,
                                                    TypeDescription[obj.name]))
                           IN [m |-> a.m, act |-> Returned(act, a.ref)]
                      ELSE [m |-> p.m,
                            act |-> Activation(obj, depth, "fields", p.ref, 1, 0)]
              [] KindOf(obj) = "List" ->
                   [m |-> m, act |-> Activation(obj, depth, "list", 0, 0, 0)]
              [] KindOf(obj) = "Scalar" ->
                   CASE obj.name = "Float" ->
                           leaf(Node(Nullable("number"), 0, 0, 0, <<>>, ""))
                     [] obj.name = "Int" ->
                           leaf(Node(Nullable("integer"), 0, 0, 0, <<>>, ""))
                     [] obj.name = "String" ->
                           leaf(Node(Nullable("string"), 0, 0, 0, <<>>, ""))
                     [] obj.name = "Boolean" ->
                           leaf(Node(Nullable("boolean"), 0, 0, 0, <<>>, ""))
                     [] obj.name = "ID" ->
                           leaf(Node(Nullable("string"), 0, 0, 0, <<>>, ""))
                     [] OTHER ->
                           LET t == getScalarType(m, obj.name, cb)
                           IN [m |-> t.m, act |-> Returned(act, t.ref)]
              [] KindOf(obj) = "Enum" ->
                   leaf(Node(Nullable("string"), 0, 0, 0, EnumValues[obj.name],
                             TypeDescription[obj.name]))
              [] KindOf(obj) = "NonNull" ->
                   [m |-> m, act |-> Activation(obj, depth, "nonNull", 0, 0, 0)]
              [] OTHER ->
                   [m |-> Throw(m, "Error", "Unexpected InputType").m,
                    act |-> act]

\* the type an activation that is not done recurses into next
NextInputType(act) ==
    IF act.stage = "fields" THEN TypeFields[act.obj.name][act.i].type
    ELSE ofType(act.obj)

\* the recursive call an activation was waiting for returned ref: the
\* activation goes on to its next recursive call, or to its own return
recurseInputTypeResume(m, act, ref) ==
    CASE act.stage = "fields" ->
            LET f == TypeFields[act.obj.name][act.i]
                h == [m.heap EXCEPT
                         ![ref].description = f.description,
                         ![act.p] = PutProp(m.heap[act.p], f.name, ref)]
                m1 == [m EXCEPT !.heap = h]
            IN IF act.i < Len(TypeFields[act.obj.name])
               THEN [m |-> m1, act |-> [act EXCEPT !.i = @ + 1]]
               ELSE LET a == Alloc(m1, Node(Nullable("object"), 0, act.p, 0,
                                            <<>>, TypeDescription[act.obj.name]))
                    IN [m |-> a.m, act |-> Returned(act, a.ref)]
      [] act.stage = "list" ->
            LET a == Alloc(m, Node(Nullable("array"), ref, 0, 0, <<>>, ""))
            IN [m |-> a.m, act |-> Returned(act, a.ref)]
      [] act.stage = "nonNull" ->
            LET retVal == m.heap[ref]
                a == Alloc(m, [retVal EXCEPT !.type = DropNull(retVal.type)])
            IN [m |-> a.m, act |-> Returned(act, a.ref)]

-----------------------------------------------------------------------------
(* Query documents: the syntax trees parse produces *)

Field(name, alias, sels) ==
    [kind |-> "Field", name |-> name, alias |-> alias, on |-> "", sels |-> sels]

FragmentSpread(name) ==
    [kind |-> "FragmentSpread", name |-> name, alias |-> "", on |-> "",
     sels |-> <<>>]

InlineFragment(on, sels) ==
    [kind |-> "InlineFragment", name |-> "", alias |-> "", on |-> on,
     sels |-> sels]

VariableDef(name, type) == [name |-> name, type |-> type]

\* an operation; name "" is an anonymous one
OperationDefinition(name, variables, sels) ==
    [kind |-> "OperationDefinition", name |-> name, vars |-> variables,
     on |-> "Query", sels |-> sels]

FragmentDefinition(name, on, sels) ==
    [kind |-> "FragmentDefinition", name |-> name, vars |-> <<>>, on |-> on,
     sels |-> sels]

Document(defs) == [parses |-> TRUE, defs |-> defs]

\* a text parse rejects
Unparsable == [parses |-> FALSE, defs |-> <<>>]

Leaf(name) == Field(name, "", <<>>)

FragF == FragmentDefinition("F", "Hero", <<Leaf("name")>>)

\* the query texts toOpenAPI is called with
Queries == <<
    \* 1: query GetHero { count title }
    Document(<<OperationDefinition("GetHero", <<>>,
                  <<Leaf("count"), Leaf("title")>>)>>),
    \* 2: { count }
    Document(<<OperationDefinition("", <<>>, <<Leaf("count")>>)>>),
    \* 3: query Q { count
    Unparsable,
    \* 4: query Q { hreo }
    Document(<<OperationDefinition("Q", <<>>, <<Leaf("hreo")>>)>>),
    \* 5: query Q { hreo hero }
    Document(<<OperationDefinition("Q", <<>>, <<Leaf("hreo"), Leaf("hero")>>)>>),
    \* 6: query Dates { born bornNN dates }
    Document(<<OperationDefinition("Dates", <<>>,
                  <<Leaf("born"), Leaf("bornNN"), Leaf("dates")>>)>>),
    \* 7: query Home { tags home }
    Document(<<OperationDefinition("Home", <<>>,
                  <<Leaf("tags"), Leaf("home")>>)>>),
    \* 8: query Heroes { hero { name nick } heroNN { name } heroes { name }
    \*                   heroesNN { name } color colorNN }
    Document(<<OperationDefinition("Heroes", <<>>,
                  <<Field("hero", "", <<Leaf("name"), Leaf("nick")>>),
                    Field("heroNN", "", <<Leaf("name")>>),
                    Field("heroes", "", <<Leaf("name")>>),
                    Field("heroesNN", "", <<Leaf("name")>>),
                    Leaf("color"), Leaf("colorNN")>>)>>),
    \* 9: query Beings { being { ... on Hero { name } ... on Droid { model } }
    \*                   beingNN { ... on Droid { model } }
    \*                   beings { ... on Hero { name } } }
    Document(<<OperationDefinition("Beings", <<>>,
                  <<Field("being", "",
                       <<InlineFragment("Hero", <<Leaf("name")>>),
                         InlineFragment("Droid", <<Leaf("model")>>)>>),
                    Field("beingNN", "",
                       <<InlineFragment("Droid", <<Leaf("model")>>)>>),
                    Field("beings", "",
                       <<InlineFragment("Hero", <<Leaf("name")>>)>>)>>)>>),
    \* 10: fragment F on Hero { name }  query Q { hero { nick ...F } }
    Document(<<FragF,
               OperationDefinition("Q", <<>>,
                  <<Field("hero", "",
                       <<Leaf("nick"), FragmentSpread("F")>>)>>)>>),
    \* 11: query Q { hero { nick name } }
    Document(<<OperationDefinition("Q", <<>>,
                  <<Field("hero", "", <<Leaf("nick"), Leaf("name")>>)>>)>>),
    \* 12: query Q { hero { ...F } }  fragment F on Hero { name }
    Document(<<OperationDefinition("Q", <<>>,
                  <<Field("hero", "", <<FragmentSpread("F")>>)>>),
               FragF>>),
    \* 13: query Q { hero { name } }
    Document(<<OperationDefinition("Q", <<>>,
                  <<Field("hero", "", <<Leaf("name")>>)>>)>>),
    \* 14: fragment F on Hero { name }  query Q { hero { ...F } }
    Document(<<FragF,
               OperationDefinition("Q", <<>>,
                  <<Field("hero", "", <<FragmentSpread("F")>>)>>)>>),
    \* 15: fragment F on Hero { name }  query Q { hero { ...F nick } }
    Document(<<FragF,
               OperationDefinition("Q", <<>>,
                  <<Field("hero", "",
                       <<FragmentSpread("F"), Leaf("nick")>>)>>)>>),
    \* 16: query Q { hero { name nick } }
    Document(<<OperationDefinition("Q", <<>>,
                  <<Field("hero", "", <<Leaf("name"), Leaf("nick")>>)>>)>>),
    \* 17: query A($id: ID!, $f: Filter) { count }
    \*     query B($d: Date, $n: [Int!], $c: Color!) { title }
    Document(<<OperationDefinition("A",
                  <<VariableDef("id", GraphQLNonNull(Named("ID"))),
                    VariableDef("f", Named("Filter"))>>,
                  <<Leaf("count")>>),
               OperationDefinition("B",
                  <<VariableDef("d", Named("Date")),
                    VariableDef("n", GraphQLList(GraphQLNonNull(Named("Int")))),
                    VariableDef("c", GraphQLNonNull(Named("Color")))>>,
                  <<Leaf("title")>>)>>),
    \* 18: fragment F on Hero { name }  { hero { ...F } }
    Document(<<FragF,
               OperationDefinition("", <<>>,
                  <<Field("hero", "", <<FragmentSpread("F")>>)>>)>>),
    \* 19: query Q { h: hero { n: name friend { name } nick } c: count }
    Document(<<OperationDefinition("Q", <<>>,
                  <<Field("hero", "h",
                       <<Field("name", "n", <<>>),
                         Field("friend", "", <<Leaf("name")>>),
                         Leaf("nick")>>),
                    Field("count", "c", <<>>)>>)>>),
    \* 20: fragment U on Being { ... on Hero { name } }
    \*     query Q { being { ...U } }
    Document(<<FragmentDefinition("U", "Being",
                  <<InlineFragment("Hero", <<Leaf("name")>>)>>),
               OperationDefinition("Q", <<>>,
                  <<Field("being", "", <<FragmentSpread("U")>>)>>)>>),
    \* 21: fragment F on Hero { name }  query Q { heroes { ...F } }
    Document(<<FragF,
               OperationDefinition("Q", <<>>,
                  <<Field("heroes", "", <<FragmentSpread("F")>>)>>)>>),
    \* 22: fragment F on Hero { name }
    \*     query A { hero { ...F nick } }  query B { hero { ...F } }
    Document(<<FragF,
               OperationDefinition("A", <<>>,
                  <<Field("hero", "",
                       <<FragmentSpread("F"), Leaf("nick")>>)>>),
               OperationDefinition("B", <<>>,
                  <<Field("hero", "", <<FragmentSpread("F")>>)>>)>>),
    \* 23: query C($c: Chain) { count }
    Document(<<OperationDefinition("C",
                  <<VariableDef("c", Named("Chain"))>>, <<Leaf("count")>>)>>),
    \* 24: query V($d: Date, $f: Filter!, $ds: [Date]) { dates }
    Document(<<OperationDefinition("V",
                  <<VariableDef("d", Named("Date")),
                    VariableDef("f", GraphQLNonNull(Named("Filter"))),
                    VariableDef("ds", GraphQLList(Named("Date")))>>,
                  <<Leaf("dates")>>)>>),
    \* 25: query Q { hero { ... on Hero { name } } }
    Document(<<OperationDefinition("Q", <<>>,
                  <<Field("hero", "",
                       <<InlineFragment("Hero", <<Leaf("name")>>)>>)>>)>>),
    \* 26: query A { count }  { title }
    Document(<<OperationDefinition("A", <<>>, <<Leaf("count")>>),
               OperationDefinition("", <<>>, <<Leaf("title")>>)>>),
    \* 27: fragment F on Hero { name }
    \*     query Q { hero { ...F friend { ...F nick } } }
    Document(<<FragF,
               OperationDefinition("Q", <<>>,
                  <<Field("hero", "",
                       <<FragmentSpread("F"),
                         Field("friend", "",
                            <<FragmentSpread("F"), Leaf("nick")>>)>>)>>)>>),
    \* 28: fragment QF on Query { title }
    \*     query A { count ...QF }  query B { ...QF tags }
    Document(<<FragmentDefinition("QF", "Query", <<Leaf("title")>>),
               OperationDefinition("A", <<>>,
                  <<Leaf("count"), FragmentSpread("QF")>>),
               OperationDefinition("B", <<>>,
                  <<FragmentSpread("QF"), Leaf("tags")>>)>>),
    \* 29: fragment C on Character { name }
    \*     query Q { hero { ...C } }
    Document(<<FragmentDefinition("C", "Character", <<Leaf("name")>>),
               OperationDefinition("Q", <<>>,
                  <<Field("hero", "", <<FragmentSpread("C")>>)>>)>>)
>>

QueryIds == 1..Len(Queries)


-----------------------------------------------------------------------------
(* parse and validate, the library calls toOpenAPI makes before the walk *)

RECURSIVE Concat(_)
Concat(ss) == IF ss = <<>> THEN <<>> ELSE Head(ss) \o Concat(Tail(ss))

\* the syntax tree of a text, or <<>> when parse throws
parse(q) == IF Queries[q].parses THEN <<Queries[q].defs>> ELSE <<>>

\* each selection of a selection set, outermost first, with the type in
\* scope around it ("" when unknown)
RECURSIVE Selections(_, _, _)
Selections(sels, i, parent) ==
    IF i > Len(sels) THEN <<>>
    ELSE LET s == sels[i]
             inner == CASE s.kind = "Field" ->
                              IF HasField(parent, s.name)
                              THEN getNamedType(getFieldDef(parent, s.name).type)
                              ELSE ""
                        [] s.kind = "InlineFragment" -> s.on
                        [] OTHER -> ""
         IN <<[sel |-> s, parent |-> parent]>>
            \o Selections(s.sels, 1, inner)
            \o Selections(sels, i + 1, parent)

\* the fragments a selection set spreads, at any depth
SpreadNames(sels) ==
    LET cs == Selections(sels, 1, "")
    IN {cs[i].sel.name : i \in {j \in 1..Len(cs) :
                                   cs[j].sel.kind = "FragmentSpread"}}

FragmentNames(defs) ==
    {defs[i].name : i \in {j \in 1..Len(defs) :
                              defs[j].kind = "FragmentDefinition"}}

FragmentNamed(defs, n) ==
    defs[CHOOSE i \in 1..Len(defs) :
            defs[i].kind = "FragmentDefinition" /\ defs[i].name = n]

\* the fragments reachable through spreads from those of set
RECURSIVE SpreadClosure(_, _)
SpreadClosure(defs, set) ==
    LET more == UNION {SpreadNames(FragmentNamed(defs, n).sels) :
                          n \in set \cap FragmentNames(defs)}
    IN IF more \subseteq set THEN set ELSE SpreadClosure(defs, set \cup more)

Operations(defs) ==
    {i \in 1..Len(defs) : defs[i].kind = "OperationDefinition"}

IsComposite(typeName) ==
    /\ typeName \in DOMAIN TypeKind
    /\ TypeKind[typeName] \in {"Object", "Union", "Interface"}

IsInputType(t) ==
    /\ getNamedType(t) \in DOMAIN TypeKind
    /\ TypeKind[getNamedType(t)] \in {"Scalar", "Enum", "InputObject"}

PossibleTypes(typeName) ==
    CASE TypeKind[typeName] = "Union" -> UnionMembers[typeName]
      [] TypeKind[typeName] = "Interface" -> Implementations[typeName]
      [] OTHER -> {typeName}

Err(cond, rule) == IF cond THEN <<rule>> ELSE <<>>

DefinitionErrors(defs, i) ==
    LET d == defs[i]
        used == SpreadClosure(defs,
                    UNION {SpreadNames(defs[o].sels) : o \in Operations(defs)})
    IN IF d.kind = "OperationDefinition"
       THEN Err(d.name = "" /\ Cardinality(Operations(defs)) > 1,
                "LoneAnonymousOperation")
            \o Err(d.name # "" /\ \E j \in 1..(i - 1) :
                      defs[j].kind = d.kind /\ defs[j].name = d.name,
                   "UniqueOperationNames")
            \o Err(\E a, b \in 1..Len(d.vars) :
                      a < b /\ d.vars[a].name = d.vars[b].name,
                   "UniqueVariableNames")
            \o Err(\E a \in 1..Len(d.vars) : ~IsInputType(d.vars[a].type),
                   "VariablesAreInputTypes")
       ELSE Err(\E j \in 1..(i - 1) :
                   defs[j].kind = d.kind /\ defs[j].name = d.name,
                "UniqueFragmentNames")
            \o Err(d.on \notin DOMAIN TypeKind, "KnownTypeNames")
            \o Err(d.on \in DOMAIN TypeKind /\ ~IsComposite(d.on),
                   "FragmentsOnCompositeTypes")
            \o Err(d.name \notin used, "NoUnusedFragments")
            \o Err(d.name \in SpreadClosure(defs, SpreadNames(d.sels)),
                   "NoFragmentCycles")

SelectionErrors(defs, c) ==
    LET s == c.sel
        known == c.parent \in DOMAIN TypeKind
    IN CASE s.kind = "Field" ->
              IF ~known THEN <<>>
              ELSE IF ~HasField(c.parent, s.name)
              THEN <<"FieldsOnCorrectType">>
              ELSE Err(IsComposite(getNamedType(getFieldDef(c.parent, s.name).type))
                          # (s.sels # <<>>),
                       "ScalarLeafs")
         [] s.kind = "FragmentSpread" ->
              IF s.name \notin FragmentNames(defs)
              THEN <<"KnownFragmentNames">>
              ELSE LET on == FragmentNamed(defs, s.name).on
                   IN Err(known /\ IsComposite(c.parent) /\ IsComposite(on)
                          /\ PossibleTypes(c.parent) \cap PossibleTypes(on) = {},
                          "PossibleFragmentSpreads")
         [] s.kind = "InlineFragment" ->
              Err(s.on \notin DOMAIN TypeKind, "KnownTypeNames")
              \o Err(s.on \in DOMAIN TypeKind /\ ~IsComposite(s.on),
                     "FragmentsOnCompositeTypes")
              \o Err(known /\ IsComposite(c.parent) /\ IsComposite(s.on)
                     /\ PossibleTypes(c.parent) \cap PossibleTypes(s.on) = {},
                     "PossibleFragmentSpreads")

\* the list of errors validate returns for a document
validate(defs) ==
    LET cs == Concat([i \in 1..Len(defs) |->
                         Selections(defs[i].sels, 1, defs[i].on)])
    IN Concat([i \in 1..Len(defs) |-> DefinitionErrors(defs, i)])
       \o Concat([i \in 1..Len(cs) |-> SelectionErrors(defs, cs[i])])

-----------------------------------------------------------------------------
(* visit: the enter and leave events of a document, in the order the walk  *)
(* dispatches them, each with what the type cursor shows at that node.     *)
(* loc is the node's source location.                                      *)

NoFieldDef == FieldDef("", Named(""), "")

Event(kind, phase, loc, name, alias, fieldDef, type) ==
    [kind |-> kind, phase |-> phase, loc |-> loc, name |-> name,
     alias |-> alias, fieldDef |-> fieldDef, type |-> type]

RECURSIVE SelectionEvents(_, _, _, _)
SelectionEvents(sels, i, parent, loc) ==
    IF i > Len(sels) THEN <<>>
    ELSE LET s == sels[i]
             l == Append(loc, i)
             these ==
               CASE s.kind = "Field" ->
                      LET fd == getFieldDef(parent, s.name)
                      IN <<Event("Field", "enter", l, s.name, s.alias, fd,
                                 Named(""))>>
                         \o SelectionEvents(s.sels, 1, getNamedType(fd.type), l)
                         \o <<Event("Field", "leave", l, s.name, s.alias, fd,
                                    Named(""))>>
                 [] s.kind = "FragmentSpread" ->
                      <<Event("FragmentSpread", "enter", l, s.name, "",
                              NoFieldDef, Named(""))>>
                 [] s.kind = "InlineFragment" ->
                      <<Event("InlineFragment", "enter", l, "", "", NoFieldDef,
                              Named(s.on))>>
                      \o SelectionEvents(s.sels, 1, s.on, l)
                      \o <<Event("InlineFragment", "leave", l, "", "",
                                 NoFieldDef, Named(s.on))>>
         IN these \o SelectionEvents(sels, i + 1, parent, loc)

DefinitionEvents(d, i) ==
    <<Event(d.kind, "enter", <<i>>, d.name, "", NoFieldDef, Named(d.on))>>
    \o [v \in 1..Len(d.vars) |->
          Event("VariableDefinition", "enter", <<i, 0, v>>, d.vars[v].name, "",
                NoFieldDef, d.vars[v].type)]
    \o SelectionEvents(d.sels, 1, d.on, <<i>>)
    \o <<Event(d.kind, "leave", <<i>>, d.name, "", NoFieldDef, Named(d.on))>>

DocumentEvents(defs) ==
    Concat([i \in 1..Len(defs) |-> DefinitionEvents(defs[i], i)])
    \o <<Event("Document", "leave", <<>>, "", "", NoFieldDef, Named(""))>>


-----------------------------------------------------------------------------
(* Results.  A returned document is recorded as a value: every reference   *)
(* is unfolded into what it points to at the time of the return.  <<>> is  *)
(* undefined and <<v>> a value.                                            *)

RECURSIVE Tree(_, _, _)
Tree(h, ref, fuel) ==
    IF ref = 0 THEN <<>>
    ELSE IF fuel = 0 THEN <<"cut">>
    ELSE LET o == h[ref]
         IN CASE o.kind = "node" ->
                   <<[type |-> o.type,
                      items |-> Tree(h, o.items, fuel - 1),
                      properties |-> Tree(h, o.properties, fuel - 1),
                      anyOf |-> Tree(h, o.anyOf, fuel - 1),
                      enum |-> o.enum,
                      description |-> o.description]>>
              [] o.kind = "props" ->
                   <<[n \in DOMAIN o.map |-> Tree(h, o.map[n], fuel - 1)]>>
              [] o.kind = "array" ->
                   <<[i \in 1..Len(o.elems) |-> Tree(h, o.elems[i], fuel - 1)]>>

ParameterTree(h, p) ==
    [name |-> p.name, in |-> p.in, required |-> p.required,
     schema |-> [type |-> p.schema.type,
                 items |-> Tree(h, p.schema.items, MaxUnfold),
                 properties |-> Tree(h, p.schema.properties, MaxUnfold)],
     description |-> p.description]

\* the document toOpenAPI returns, given its paths
OpenApiSchema(h, p) ==
    [openapi |-> "3.1.0",
     paths |-> [key \in DOMAIN p |->
                  [parameters |-> [i \in 1..Len(p[key].parameters) |->
                                      ParameterTree(h, p[key].parameters[i])],
                   schema |-> Tree(h, p[key].schema, MaxUnfold)]]]

CacheTree(h, c) == [n \in DOMAIN c |-> Tree(h, c[n], MaxUnfold)]

\* what is known of a completed call: the query, the value returned (a
\* record with the fields present, <<>> when the call threw), the
\* exception, the cache before and after, and how far the call went
CallRecord(q, result, thrown, cache0, cache1, parsed, validated, handled) ==
    [query |-> q, result |-> result, thrown |-> thrown, cache0 |-> cache0,
     cache1 |-> cache1, parsed |-> parsed, validated |-> validated,
     handled |-> handled]

NoCall == CallRecord(0, <<>>, NoThrow, <<>>, <<>>, FALSE, FALSE, 0)

\* of the call in progress: the cache when it began, the handlers entered so
\* far, and the field Field enter mapped last with the node it got
NoCur == [cache0 |-> <<>>, handled |-> 0, mapped |-> <<>>]

\* the objects a call leaves reachable are those of the cache: the rest of
\* the heap is garbage once the call is over
RECURSIVE CompactFrom(_, _, _, _)
CompactFrom(h, c, todo, acc) ==
    IF todo = {} THEN acc
    ELSE LET n == CHOOSE x \in todo : \A y \in todo : c[x] <= c[y]
         IN CompactFrom(h, c, todo \ {n},
                        [heap |-> Append(acc.heap, h[c[n]]),
                         cache |-> (n :> (Len(acc.heap) + 1)) @@ acc.cache])

Compact(h, c) ==
    CompactFrom(h, c, DOMAIN c, [heap |-> TypeMapItems, cache |-> <<>>])

-----------------------------------------------------------------------------
(* The constructor *)

SchemaArgs == {"none", "invalid", "valid"}

ConstructorArgs ==
    [schema : SchemaArgs, introspectionSchema : SchemaArgs,
     onUnknownScalar : {"none", "dateResolver"},
     scalarConfig : {"none", "withDate"}]

\* buildSchema and buildClientSchema: the schema, or the error thrown
buildSchema(source) ==
    IF source = "valid"
    THEN [graphqlSchema |-> "built", err |-> ""]
    ELSE [graphqlSchema |-> "unset", err |-> "GraphQLError: schema"]

buildClientSchema(introspection) ==
    IF introspection = "valid"
    THEN [graphqlSchema |-> "built", err |-> ""]
    ELSE [graphqlSchema |-> "unset", err |-> "GraphQLError: introspection"]

\* a constructor without the try: the build error leaves it
Rethrow(b) ==
    [graphqlSchema |-> b.graphqlSchema, schemaError |-> "", threw |-> b.err # ""]

\* try { build } catch (err) { this.schemaError = err }: whether the
\* constructor is left by the exception
Catch(b) ==
    [graphqlSchema |-> b.graphqlSchema, schemaError |-> b.err, threw |-> FALSE]

WalkVars == <<query, events, pos, paths, error, operationDef,
              currentSelection, fragments, rec, cur>>

Init ==
    /\ pc = "new"
    /\ args \in ConstructorArgs
    /\ graphqlSchema = "unset"
    /\ schemaError = ""
    /\ onUnknownScalar = "none"
    /\ scalarConfig = <<>>
    /\ heap = TypeMapItems
    /\ ncalls = 0
    /\ query = 0
    /\ events = <<>>
    /\ pos = 0
    /\ paths = <<>>
    /\ error = ""
    /\ operationDef = <<>>
    /\ currentSelection = <<>>
    /\ fragments = <<>>
    /\ rec = <<>>
    /\ cur = NoCur
    /\ invoked = <<>>
    /\ last = NoCall
    /\ prev = NoCall

Constructor ==
    /\ pc = "new"
    /\ onUnknownScalar' = IF args.onUnknownScalar = "none" THEN "default"
                          ELSE args.onUnknownScalar
    /\ IF args.scalarConfig = "none"
       THEN scalarConfig' = <<>> /\ heap' = heap
       ELSE /\ heap' = Append(heap, Node(TStr("string"), 0, 0, 0, <<>>, ""))
            /\ scalarConfig' = ("Date" :> (Len(heap) + 1))
    /\ IF args.schema # "none"
       THEN LET b == Catch(buildSchema(args.schema))
            IN /\ graphqlSchema' = b.graphqlSchema
               /\ schemaError' = b.schemaError
               /\ pc' = IF b.threw THEN "ctorThrew" ELSE "ready"
       ELSE IF args.introspectionSchema # "none"
       THEN LET b == Catch(buildClientSchema(args.introspectionSchema))
            IN /\ graphqlSchema' = b.graphqlSchema
               /\ schemaError' = b.schemaError
               /\ pc' = IF b.threw THEN "ctorThrew" ELSE "ready"
       ELSE /\ pc' = "ctorThrew"
            /\ UNCHANGED <<graphqlSchema, schemaError>>
    /\ args' = <<>>
    /\ UNCHANGED <<ncalls, invoked, last, prev>>
    /\ UNCHANGED WalkVars

-----------------------------------------------------------------------------
(* toOpenAPI *)

\* the calls of onUnknownScalar so far, after those of asked
Invoked(asked) ==
    LET names == DOMAIN invoked \cup {asked[i] : i \in 1..Len(asked)}
    IN [n \in names |->
          (IF n \in DOMAIN invoked THEN invoked[n] ELSE 0)
          + Cardinality({i \in 1..Len(asked) : asked[i] = n})]

\* the call is over (returned result, or threw m.thrown): its locals are gone
EndCall(q, m, result, cache0, parsed, validated, handled) ==
    /\ invoked' = Invoked(m.asked)
    /\ LET g == Compact(m.heap, m.cache)
       IN heap' = g.heap /\ scalarConfig' = g.cache
    /\ last' = CallRecord(q, result, m.thrown, cache0,
                          CacheTree(m.heap, m.cache), parsed, validated,
                          handled)
    /\ pc' = "ready"
    /\ query' = 0
    /\ events' = <<>>
    /\ pos' = 0
    /\ paths' = <<>>
    /\ error' = ""
    /\ operationDef' = <<>>
    /\ currentSelection' = <<>>
    /\ fragments' = <<>>
    /\ rec' = <<>>
    /\ cur' = NoCur

\* a return that keeps the first validation error only
FirstValidationError(queryErrors) == [queryErrors |-> <<Head(queryErrors)>>]

\* return { queryErrors } of a validation that found errors
ValidationResult(queryErrors) == [queryErrors |-> queryErrors]

\* a return that always carries the document
ErrorAndDocument(e, openApiSchema) ==
    IF e # "" THEN [error |-> e, openApiSchema |-> openApiSchema]
    ELSE [openApiSchema |-> openApiSchema]

\* the return after visit: { error } or { openApiSchema }
WalkResult(e, openApiSchema) ==
    IF e # "" THEN [error |-> e] ELSE [openApiSchema |-> openApiSchema]

\* lines 380-420: up to the call of visit
ToOpenAPI(q) ==
    /\ pc = "ready"
    /\ ncalls < MaxCalls
    /\ ncalls' = ncalls + 1
    /\ prev' = last
    /\ UNCHANGED <<args, graphqlSchema, schemaError, onUnknownScalar>>
    /\ LET m == Mem(heap, scalarConfig, NoThrow)
           c0 == CacheTree(heap, scalarConfig)
           parsedQuery == parse(q)
       IN IF schemaError # ""
          THEN EndCall(q, m, [schemaError |-> schemaError], c0, FALSE, FALSE, 0)
          ELSE IF parsedQuery = <<>>
          THEN EndCall(q, m, [queryErrors |-> <<"GraphQLError: syntax">>], c0,
                       TRUE, FALSE, 0)
          ELSE IF Len(validate(parsedQuery[1])) > 0
          THEN EndCall(q, m, ValidationResult(validate(parsedQuery[1])), c0,
                       TRUE, TRUE, 0)
          ELSE /\ pc' = "walking"
               /\ query' = q
               /\ events' = DocumentEvents(parsedQuery[1])
               /\ pos' = 1
               /\ paths' = <<>>
               /\ error' = ""
               /\ operationDef' = <<>>
               /\ currentSelection' = <<>>
               /\ fragments' = <<>>
               /\ rec' = <<>>
               /\ cur' = [cache0 |-> c0, handled |-> 0, mapped |-> <<>>]
               /\ last' = NoCall
               /\ UNCHANGED <<heap, scalarConfig, invoked>>

\* lines 624-632: visit has returned
ToOpenAPIReturn ==
    /\ pc = "walking"
    /\ rec = <<>>
    /\ pos > Len(events)
    /\ EndCall(query, Mem(heap, scalarConfig, NoThrow),
               WalkResult(error, OpenApiSchema(heap, paths)),
               cur.cache0, TRUE, TRUE, cur.handled)
    /\ UNCHANGED <<args, graphqlSchema, schemaError, onUnknownScalar, ncalls,
                   prev>>

-----------------------------------------------------------------------------
(* The visitor's handlers *)

AtEvent(kind, phase) ==
    /\ pc = "walking"
    /\ rec = <<>>
    /\ pos <= Len(events)
    /\ events[pos].kind = kind
    /\ events[pos].phase = phase

\* the handler returns and the walk goes on at event next
Proceed(h, c, p, e, od, cs, fr, next, mapped, asked) ==
    /\ invoked' = Invoked(asked)
    /\ heap' = h
    /\ scalarConfig' = c
    /\ paths' = p
    /\ error' = e
    /\ operationDef' = od
    /\ currentSelection' = cs
    /\ fragments' = fr
    /\ pos' = next
    /\ rec' = <<>>
    /\ cur' = [cur EXCEPT !.handled = IF rec = <<>> THEN @ + 1 ELSE @,
                          !.mapped = mapped]
    /\ UNCHANGED <<pc, args, graphqlSchema, schemaError, onUnknownScalar,
                   ncalls, query, events, last, prev>>

Continue(h, c, p, e, od, cs, fr, next) ==
    Proceed(h, c, p, e, od, cs, fr, next, cur.mapped, <<>>)

\* the handler throws: the exception leaves visit and toOpenAPI
Raise(m) ==
    /\ EndCall(query, m, <<>>, cur.cache0, TRUE, TRUE,
               IF rec = <<>> THEN cur.handled + 1 ELSE cur.handled)
    /\ UNCHANGED <<args, graphqlSchema, schemaError, onUnknownScalar, ncalls,
                   prev>>

\* a property read of undefined
TypeError(h, c) == Raise(Mem(h, c, <<"TypeError", "undefined">>))

Frame(node, openApiType) == [node |-> node, openApiType |-> openApiType]

PathKey(name) == <<"/", name>>

\* a handler that returns nothing: the walk goes on into the operation
NoBreak(evs, p) == p + 1

\* return BREAK: where the walk goes on, given the events and the current one
Break(evs, p) == Len(evs) + 1

\* an operationDef that is assigned once
FirstOperation(od, key) == IF od = <<>> THEN key ELSE od

\* operationDef = {get: ...}: the operation the variable refers to next
CurrentOperation(od, key) == key

OperationDefinitionEnter ==
    /\ AtEvent("OperationDefinition", "enter")
    /\ LET node == events[pos]
           p == Alloc(Mem(heap, scalarConfig, NoThrow), NoProps)
           t == Alloc(p.m, Node(TStr("object"), 0, p.ref, 0, <<>>, ""))
       IN IF node.name = ""
          THEN Continue(heap, scalarConfig, paths, "NoOperationNameError",
                        operationDef, currentSelection, fragments,
                        Break(events, pos))
          ELSE Continue(t.m.heap, scalarConfig,
                        (PathKey(node.name) :>
                            [parameters |-> <<>>, schema |-> t.ref]) @@ paths,
                        error, CurrentOperation(operationDef, PathKey(node.name)),
                        <<Frame(node.loc, t.ref)>> \o currentSelection,
                        fragments, pos + 1)

OperationDefinitionLeave ==
    /\ AtEvent("OperationDefinition", "leave")
    /\ Continue(heap, scalarConfig, paths, error, operationDef,
                currentSelection, fragments, pos + 1)

DocumentLeave ==
    /\ AtEvent("Document", "leave")
    /\ Continue(heap, scalarConfig, paths, error, operationDef,
                currentSelection, fragments, pos + 1)

\* the handler is inside recurseInputType: memory and activations change
InputStep(m, stack) ==
    /\ invoked' = Invoked(m.asked)
    /\ heap' = m.heap
    /\ scalarConfig' = m.cache
    /\ rec' = stack
    /\ UNCHANGED <<pc, args, graphqlSchema, schemaError, onUnknownScalar,
                   ncalls, query, events, pos, paths, error, operationDef,
                   currentSelection, fragments, last, prev>>

\* the handler is entered and calls recurseInputType(getInputType(), 0, ..)
VariableDefinition ==
    /\ AtEvent("VariableDefinition", "enter")
    /\ LET r == recurseInputType(Mem(heap, scalarConfig, NoThrow),
                                 events[pos].type, 0, onUnknownScalar)
       IN IF Threw(r.m) THEN Raise(r.m)
          ELSE /\ InputStep(r.m, <<r.act>>)
               /\ cur' = [cur EXCEPT !.handled = @ + 1]

\* the innermost activation makes its next recursive call
RecurseInputTypeCall ==
    /\ pc = "walking"
    /\ rec # <<>>
    /\ Head(rec).stage # "done"
    /\ LET r == recurseInputType(Mem(heap, scalarConfig, NoThrow),
                                 NextInputType(Head(rec)), Head(rec).depth + 1,
                                 onUnknownScalar)
       IN IF Threw(r.m) THEN Raise(r.m)
          ELSE InputStep(r.m, <<r.act>> \o rec) /\ UNCHANGED cur

\* the innermost activation has returned to the one that called it
RecurseInputTypeReturn ==
    /\ pc = "walking"
    /\ Len(rec) > 1
    /\ Head(rec).stage = "done"
    /\ LET r == recurseInputTypeResume(Mem(heap, scalarConfig, NoThrow), rec[2],
                                       Head(rec).ret)
       IN InputStep(r.m, <<r.act>> \o Tail(Tail(rec))) /\ UNCHANGED cur

\* recurseInputType has returned t to the handler: lines 504-529
VariableDefinitionPush ==
    /\ pc = "walking"
    /\ Len(rec) = 1
    /\ Head(rec).stage = "done"
    /\ IF operationDef = <<>> THEN TypeError(heap, scalarConfig)
       ELSE LET node == events[pos]
                t == heap[Head(rec).ret]
                full == \/ isOfTypeOrContains(t.type, "object")
                        \/ isOfTypeOrContains(t.type, "array")
                param ==
                  [name |-> node.name, in |-> "query",
                   required |-> ~isOfTypeOrContains(t.type, "null"),
                   schema |-> [type |-> t.type,
                               items |-> IF full THEN t.items ELSE 0,
                               properties |-> IF full THEN t.properties ELSE 0],
                   description |-> t.description]
            IN Continue(heap, scalarConfig,
                        [paths EXCEPT ![operationDef].parameters =
                            Append(@, param)],
                        error, operationDef, currentSelection, fragments,
                        pos + 1)

FragmentDefinitionEnter ==
    /\ AtEvent("FragmentDefinition", "enter")
    /\ LET node == events[pos]
           fragmentType == node.type
           m == Mem(heap, scalarConfig, NoThrow)
           t == IF KindOf(fragmentType) = "Union"
                THEN LET a == Alloc(m, Array(<<>>))
                     IN Alloc(a.m, Node(TUndef, 0, 0, a.ref, <<>>, ""))
                ELSE LET p == Alloc(m, NoProps)
                     IN Alloc(p.m, Node(IF fragmentType.k = "NonNull"
                                        THEN TStr("object")
                                        ELSE Nullable("object"),
                                        0, p.ref, 0, <<>>, ""))
       IN Continue(t.m.heap, scalarConfig, paths, error, operationDef,
                   <<Frame(node.loc, t.ref)>> \o currentSelection, fragments,
                   pos + 1)

FragmentDefinitionLeave ==
    /\ AtEvent("FragmentDefinition", "leave")
    /\ IF currentSelection = <<>> THEN TypeError(heap, scalarConfig)
       ELSE LET result == Head(currentSelection).openApiType
            IN Continue(heap, scalarConfig, paths, error, operationDef,
                        Tail(currentSelection),
                        (events[pos].name :> result) @@ fragments, pos + 1)

FragmentSpreadEnter ==
    /\ AtEvent("FragmentSpread", "enter")
    /\ IF currentSelection = <<>> THEN TypeError(heap, scalarConfig)
       ELSE LET top == Head(currentSelection).openApiType
                openApiType == heap[top]
                name == events[pos].name
                fragment == IF name \in DOMAIN fragments THEN fragments[name]
                            ELSE 0
                h == IF fragment = 0 THEN heap
                     ELSE IF openApiType.anyOf # 0
                     THEN [heap EXCEPT ![top].anyOf = heap[fragment].anyOf]
                     ELSE IF openApiType.items # 0
                     THEN [heap EXCEPT ![openApiType.items].properties =
                              heap[fragment].properties]
                     ELSE [heap EXCEPT ![top].properties =
                              heap[fragment].properties]
            IN IF fragment = 0 THEN TypeError(heap, scalarConfig)
               ELSE Continue(h, scalarConfig, paths, error, operationDef,
                             currentSelection, fragments, pos + 1)

FieldEnter ==
    /\ AtEvent("Field", "enter")
    /\ LET node == events[pos]
           name == IF node.alias # "" THEN node.alias ELSE node.name
           r == fieldDefToOpenApiField(Mem(heap, scalarConfig, NoThrow),
                                       node.fieldDef, onUnknownScalar)
       IN IF Threw(r.m) THEN Raise(r.m)
          ELSE IF currentSelection = <<>>
          THEN Raise([r.m EXCEPT !.thrown = <<"TypeError", "undefined">>])
          ELSE LET h == r.m.heap
                   openApiType == h[r.ref]
                   parentObj == h[Head(currentSelection).openApiType]
                   target == IF isOfTypeOrContains(parentObj.type, "object")
                             THEN parentObj.properties
                             ELSE IF parentObj.items = 0 THEN 0
                             ELSE h[parentObj.items].properties
                   items == IF openApiType.items = 0 THEN Node(TUndef, 0, 0, 0, <<>>, "")
                            ELSE h[openApiType.items]
                   push == \/ /\ isOfTypeOrContains(openApiType.type, "array")
                              /\ isOfTypeOrContains(items.type, "object")
                           \/ /\ isOfTypeOrContains(openApiType.type, "array")
                              /\ items.anyOf # 0
                           \/ openApiType.anyOf # 0
                           \/ isOfTypeOrContains(openApiType.type, "object")
               IN IF target = 0
                  THEN Raise([r.m EXCEPT !.thrown = <<"TypeError", "undefined">>])
                  ELSE Proceed([h EXCEPT ![target] = PutProp(@, name, r.ref)],
                               r.m.cache, paths, error, operationDef,
                               IF push
                               THEN <<Frame(node.loc, r.ref)>> \o currentSelection
                               ELSE currentSelection,
                               fragments, pos + 1,
                               <<[fieldDef |-> node.fieldDef,
                                  node |-> Tree(h, r.ref, MaxUnfold)[1]]>>,
                               r.m.asked)

FieldLeave ==
    /\ AtEvent("Field", "leave")
    /\ IF currentSelection = <<>> THEN TypeError(heap, scalarConfig)
       ELSE Continue(heap, scalarConfig, paths, error, operationDef,
                     IF Head(currentSelection).node = events[pos].loc
                     THEN Tail(currentSelection) ELSE currentSelection,
                     fragments, pos + 1)

InlineFragmentEnter ==
    /\ AtEvent("InlineFragment", "enter")
    /\ IF currentSelection = <<>> THEN TypeError(heap, scalarConfig)
       ELSE LET p == Alloc(Mem(heap, scalarConfig, NoThrow), NoProps)
                t == Alloc(p.m, Node(TStr("object"), 0, p.ref, 0, <<>>, ""))
                h == t.m.heap
                topOfStack == h[Head(currentSelection).openApiType]
                variants == IF topOfStack.items # 0
                               /\ h[topOfStack.items].anyOf # 0
                            THEN h[topOfStack.items].anyOf
                            ELSE topOfStack.anyOf
            IN IF variants = 0 THEN TypeError(h, scalarConfig)
               ELSE Continue([h EXCEPT ![variants].elems = Append(@, t.ref)],
                             scalarConfig, paths, error, operationDef,
                             <<Frame(events[pos].loc, t.ref)>>
                                \o currentSelection,
                             fragments, pos + 1)

InlineFragmentLeave ==
    /\ AtEvent("InlineFragment", "leave")
    /\ IF currentSelection = <<>> THEN TypeError(heap, scalarConfig)
       ELSE Continue(heap, scalarConfig, paths, error, operationDef,
                     Tail(currentSelection), fragments, pos + 1)

-----------------------------------------------------------------------------

Next ==
    \/ Constructor
    \/ \E q \in QueryIds : ToOpenAPI(q)
    \/ OperationDefinitionEnter
    \/ OperationDefinitionLeave
    \/ VariableDefinition
    \/ RecurseInputTypeCall
    \/ RecurseInputTypeReturn
    \/ VariableDefinitionPush
    \/ FragmentDefinitionEnter
    \/ FragmentDefinitionLeave
    \/ FragmentSpreadEnter
    \/ FieldEnter
    \/ FieldLeave
    \/ InlineFragmentEnter
    \/ InlineFragmentLeave
    \/ DocumentLeave
    \/ ToOpenAPIReturn

Spec == Init /\ [][Next]_vars

\* toOpenAPI runs to completion on one thread: a step that can be taken is
\* taken
FairSpec == Spec /\ WF_vars(Next)

-----------------------------------------------------------------------------
(* Properties.  last is the record of the latest finished call of          *)
(* toOpenAPI on the instance and prev that of the call before it.          *)

ResultFields == {"schemaError", "queryErrors", "error", "openApiSchema"}

\* the call r was made and returned rather than threw
Returns(r) == r.query # 0 /\ r.thrown = NoThrow

\* the call r got as far as the walk
Walked(r) == r.query # 0 /\ r.handled > 0

\* C1: every call of toOpenAPI that returns gives a result holding exactly
\* one of schemaError, queryErrors, error and openApiSchema, and nothing else
C1_ExactlyOneResultField ==
    \A r \in {last, prev} :
        Returns(r) =>
            /\ Cardinality(DOMAIN r.result \cap ResultFields) = 1
            /\ DOMAIN r.result \subseteq ResultFields

\* a call that returned a document after one that returned an error
C1_Witness ==
    /\ Returns(last) /\ "openApiSchema" \in DOMAIN last.result
    /\ Returns(prev) /\ "error" \in DOMAIN prev.result

\* C2: the node the output type mapper produces for a field that Field
\* enter visits has a type including "null" if and only if the declared type
\* of the field is not wrapped in non-null
C2_NullabilityRoundTrip ==
    cur.mapped # <<>> =>
        LET f == cur.mapped[1]
        IN isOfTypeOrContains(f.node.type, "null")
               <=> (f.fieldDef.type.k # "NonNull")

\* the selection set with every fragment spread replaced by the selection
\* set of its fragment
RECURSIVE InlineSelections(_, _)
InlineSelections(defs, sels) ==
    Concat([i \in 1..Len(sels) |->
                IF sels[i].kind = "FragmentSpread"
                THEN InlineSelections(defs, FragmentNamed(defs, sels[i].name).sels)
                ELSE <<[sels[i] EXCEPT
                           !.sels = InlineSelections(defs, sels[i].sels)]>>])

\* the operations of a document, their spreads written out
RECURSIVE Inlined(_, _)
Inlined(defs, i) ==
    IF i > Len(defs) THEN <<>>
    ELSE (IF defs[i].kind = "OperationDefinition"
          THEN <<[defs[i] EXCEPT !.sels = InlineSelections(defs, defs[i].sels)]>>
          ELSE <<>>) \o Inlined(defs, i + 1)

UsesSpread(defs) ==
    \E i \in Operations(defs) : SpreadNames(defs[i].sels) # {}

\* the call r walked a document with spreads and the call t the same
\* document with the spreads written out, from the same scalar cache
InlinedPair(r, t) ==
    /\ Walked(r) /\ Walked(t)
    /\ r.cache0 = t.cache0
    /\ UsesSpread(Queries[r.query].defs)
    /\ Inlined(Queries[r.query].defs, 1) = Queries[t.query].defs

\* C3: a validated query that spreads a named fragment gives the same
\* outcome as the query with the selection set of the fragment written in
\* place of the spread, wherever the fragment is defined and whatever
\* siblings the spread has
C3_FragmentInliningEquivalence ==
    InlinedPair(prev, last) =>
        /\ last.thrown = prev.thrown
        /\ last.result = prev.result

\* C4: two calls in a row with the same query on one instance give
\* structurally identical outcomes
C4_Determinism ==
    (prev.query # 0 /\ last.query = prev.query) =>
        /\ last.thrown = prev.thrown
        /\ last.result = prev.result

\* the node the output type mapper gives a field of type t without
\* description on a new instance
NodeOfType(t) ==
    LET r == fieldDefToOpenApiField(Mem(TypeMapItems, <<>>, NoThrow),
                                    FieldDef("f", t, ""), "default")
    IN Tree(r.m.heap, r.ref, MaxUnfold)

\* C5: the node produced for a field of type list of T, T an object or
\* union type with or without non-null, has as items the node the mapper
\* produces for a field of type T
C5_ListItemsAreTheUnwrappedNode ==
    cur.mapped # <<>> =>
        LET f == cur.mapped[1]
            type == IF f.fieldDef.type.k = "NonNull"
                    THEN ofType(f.fieldDef.type) ELSE f.fieldDef.type
        IN (/\ type.k = "List"
            /\ TypeKind[getNamedType(ofType(type))] \in {"Object", "Union"}
            /\ ofType(type).k # "List")
               => /\ f.node.type = TStr("array")
                  /\ f.node.items = NodeOfType(ofType(type))

\* the first event that enters an operation without name, 0 if none
AnonymousEnter(evs) ==
    LET is == {i \in 1..Len(evs) : /\ evs[i].kind = "OperationDefinition"
                                   /\ evs[i].phase = "enter"
                                   /\ evs[i].name = ""}
    IN IF is = {} THEN 0 ELSE CHOOSE i \in is : \A j \in is : i <= j

\* C6: once the walk has entered an operation without name, a
\* NoOperationNameError is recorded and no handler runs after that event, no
\* path is registered and no frame pushed for the operation, and the call
\* returns {error}
C6_AnonymousOperationStopsWalk ==
    /\ (pc = "walking" /\ AnonymousEnter(events) # 0
           /\ cur.handled >= AnonymousEnter(events)) =>
          LET k == AnonymousEnter(events)
          IN /\ error = "NoOperationNameError"
             /\ cur.handled = k
             /\ pos > Len(events)
             /\ rec = <<>>
             /\ PathKey("") \notin DOMAIN paths
             /\ \A i \in 1..Len(currentSelection) :
                   currentSelection[i].node # events[k].loc
    /\ \A r \in {last, prev} :
          LET k == IF Walked(r)
                   THEN AnonymousEnter(DocumentEvents(Queries[r.query].defs))
                   ELSE 0
          IN (k # 0 /\ r.handled >= k) =>
                /\ r.handled = k
                /\ r.thrown = NoThrow
                /\ r.result = [error |-> "NoOperationNameError"]

\* a call returned {error} for an anonymous operation that follows a fragment
C6_Witness ==
    /\ last.query = 18
    /\ last.handled = AnonymousEnter(DocumentEvents(Queries[18].defs))
    /\ last.handled > 1
    /\ last.result = [error |-> "NoOperationNameError"]

\* the constructor was given a schema, or without one an introspection
\* result, that does not build
BuildFails ==
    /\ pc = "new"
    /\ \/ args.schema = "invalid"
       \/ args.schema = "none" /\ args.introspectionSchema = "invalid"

\* C7: a schema that fails to build does not make the constructor throw but
\* is stored, and every later call returns {schemaError} with the stored
\* error, without parsing, validating or walking and with the scalar cache
\* as it was
C7_SchemaErrorIsStoredAndReturned ==
    /\ [][BuildFails => (pc' = "ready" /\ schemaError' # "")]_vars
    /\ [][(pc = "ready" /\ schemaError # "") =>
             /\ pc' = "ready"
             /\ ncalls' = ncalls + 1
             /\ schemaError' = schemaError
             /\ last'.query # 0
             /\ last'.thrown = NoThrow
             /\ last'.result = [schemaError |-> schemaError]
             /\ ~last'.parsed /\ ~last'.validated /\ last'.handled = 0
             /\ last'.cache1 = last'.cache0
             /\ scalarConfig' = scalarConfig
             /\ heap' = heap]_vars

\* two calls in a row returned the stored error, for different queries
C7_Witness ==
    /\ schemaError # ""
    /\ prev.query = 3 /\ prev.result = [schemaError |-> schemaError]
    /\ last.query = 1 /\ last.result = [schemaError |-> schemaError]

\* C8: with a schema that built, a query that does not parse gives
\* {queryErrors} with one error and a query that fails validation gives
\* {queryErrors} with the whole list; nothing is thrown, no handler runs and
\* the scalar cache is as before
C8_QueryErrorsAreReturned ==
    \A r \in {last, prev} :
        (schemaError = "" /\ r.query # 0) =>
            LET q == Queries[r.query]
                quiet == /\ r.thrown = NoThrow
                         /\ r.handled = 0
                         /\ r.cache1 = r.cache0
                         /\ DOMAIN r.result = {"queryErrors"}
            IN /\ ~q.parses =>
                     quiet /\ Len(r.result.queryErrors) = 1 /\ ~r.validated
               /\ (q.parses /\ validate(q.defs) # <<>>) =>
                     quiet /\ r.result.queryErrors = validate(q.defs)
               /\ (q.parses /\ validate(q.defs) = <<>>) =>
                     "queryErrors" \notin DOMAIN r.result

\* a query with two validation errors after one that does not parse
C8_Witness ==
    /\ schemaError = ""
    /\ prev.query = 3 /\ Len(prev.result.queryErrors) = 1
    /\ last.query = 5 /\ Len(last.result.queryErrors) = 2

BuiltinScalars == {"ID", "String", "Int", "Float", "Boolean"}

\* the scalar without builtin mapping the mappers need for a type, "" if none
ScalarOfField(fieldDef) ==
    LET type == IF fieldDef.type.k = "NonNull"
                THEN ofType(fieldDef.type) ELSE fieldDef.type
        item == IF type.k # "List" THEN type
                ELSE IF ofType(type).k = "NonNull" THEN ofType(ofType(type))
                ELSE ofType(type)
    IN IF /\ KindOf(item) = "Scalar"
          /\ item.name \notin BuiltinScalars
       THEN item.name ELSE ""

ScalarOfInput(obj) ==
    IF KindOf(obj) = "Scalar" /\ obj.name \notin BuiltinScalars
    THEN obj.name ELSE ""

\* the scalar the next step of the walk asks getScalarType for, "" if none
NeededScalar ==
    IF pc # "walking" THEN ""
    ELSE IF rec # <<>>
    THEN (IF Head(rec).stage # "done"
          THEN ScalarOfInput(NextInputType(Head(rec))) ELSE "")
    ELSE IF pos > Len(events) \/ events[pos].phase # "enter" THEN ""
    ELSE IF events[pos].kind = "Field" THEN ScalarOfField(events[pos].fieldDef)
    ELSE IF events[pos].kind = "VariableDefinition"
    THEN ScalarOfInput(events[pos].type)
    ELSE ""

Unresolved(typeName) ==
    /\ typeName # ""
    /\ typeName \notin DOMAIN scalarConfig
    /\ Callback(onUnknownScalar, typeName) = <<>>

\* C9: when the walk needs a scalar without builtin mapping that is not in
\* the cache and that the callback does not resolve, the call throws an
\* UnknownScalarError naming the scalar, no result is returned and the cache
\* gets no entry for the name
C9_UnknownScalarIsThrown ==
    /\ [][Unresolved(NeededScalar) =>
             /\ pc' = "ready"
             /\ last'.thrown = <<"UnknownScalarError", NeededScalar>>
             /\ last'.result = <<>>
             /\ NeededScalar \notin DOMAIN scalarConfig'
             /\ NeededScalar \notin DOMAIN last'.cache1]_vars
    /\ [](\A r \in {last, prev} :
             r.thrown # NoThrow => DOMAIN r.result \cap ResultFields = {})

\* the default callback and a resolver that knows Date only have both let
\* a call fail
C9_Witness ==
    \/ /\ onUnknownScalar = "default"
       /\ last.thrown = <<"UnknownScalarError", "Date">>
       /\ "Date" \notin DOMAIN scalarConfig
    \/ /\ onUnknownScalar = "dateResolver"
       /\ last.thrown = <<"UnknownScalarError", "Url">>
       /\ "Url" \notin DOMAIN scalarConfig

\* the parameters the paths of a returned document have
ParametersOf(r, name) == r.result.openApiSchema.paths[PathKey(name)].parameters

\* the path of the operation the variable of the current event belongs to
OperationOfEvent == PathKey(Queries[query].defs[events[pos].loc[1]].name)

\* C10: a VariableDefinition appends one parameter to the list of the
\* operation being walked and to no other list, named after the variable
\* and required exactly when its mapped type does not admit "null", so that
\* every path of a returned document has its own variables in the order of
\* their declaration
C10_ParametersFollowVariables ==
    /\ [][(pc = "walking" /\ Len(rec) = 1 /\ Head(rec).stage = "done"
              /\ pc' = "walking") =>
             LET key == OperationOfEvent
                 new == paths'[key].parameters
             IN /\ DOMAIN paths' = DOMAIN paths
                /\ \A k \in DOMAIN paths \ {key} : paths'[k] = paths[k]
                /\ Len(new) = Len(paths[key].parameters) + 1
                /\ SubSeq(new, 1, Len(new) - 1) = paths[key].parameters
                /\ new[Len(new)].name = events[pos].name
                /\ new[Len(new)].required =
                      ~isOfTypeOrContains(new[Len(new)].schema.type, "null")
                /\ new[Len(new)].schema.type = heap[Head(rec).ret].type]_vars
    /\ [](\A r \in {last, prev} :
             (Returns(r) /\ "openApiSchema" \in DOMAIN r.result) =>
                LET defs == Queries[r.query].defs
                IN \A i \in Operations(defs) :
                      LET ps == ParametersOf(r, defs[i].name)
                      IN /\ Len(ps) = Len(defs[i].vars)
                         /\ \A j \in 1..Len(ps) :
                               /\ ps[j].name = defs[i].vars[j].name
                               /\ ps[j].in = "query"
                               /\ ps[j].required =
                                     ~isOfTypeOrContains(ps[j].schema.type,
                                                         "null"))

\* two operations with two and three variables: $id: ID! is required and
\* of type string, $d: Date is not required
C10_Witness ==
    /\ last.query = 17
    /\ Returns(last) /\ "openApiSchema" \in DOMAIN last.result
    /\ Len(ParametersOf(last, "A")) = 2
    /\ Len(ParametersOf(last, "B")) = 3
    /\ ParametersOf(last, "A")[1].name = "id"
    /\ ParametersOf(last, "A")[1].required
    /\ ParametersOf(last, "A")[1].schema.type = TStr("string")
    /\ ParametersOf(last, "B")[1].name = "d"
    /\ ~ParametersOf(last, "B")[1].required

\* a type without its "null" alternative, a single alternative left bare
WithoutNull(type) ==
    IF type.k # "arr" THEN type
    ELSE LET rest == {i \in 1..Len(type.a) : type.a[i] # TStr("null")}
         IN IF Cardinality(rest) = 1
            THEN type.a[CHOOSE i \in rest : TRUE]
            ELSE TArr(SelectSeq(type.a, LAMBDA e : e # TStr("null")))

\* the walk is about to hand the mapping of a wrapped type to the non-null
\* mapping that asked for it
NonNullReturns ==
    /\ pc = "walking"
    /\ Len(rec) > 1
    /\ Head(rec).stage = "done"
    /\ rec[2].stage = "nonNull"

\* C11: the mapping of a non-null input type is a new node equal to the
\* mapping of the wrapped type but for its type, where "null" is removed and
\* a single remaining alternative is left bare; the node of the wrapped type
\* is not altered; a non-null input object variable has type "object" and
\* an optional one ["object", "null"]
C11_InputFlattening ==
    /\ [][NonNullReturns =>
             LET inner == Head(rec).ret
                 new == Head(rec').ret
             IN /\ Len(rec') = Len(rec) - 1
                /\ Head(rec').stage = "done"
                /\ new > Len(heap)
                /\ heap'[new] = [heap[inner] EXCEPT !.type = WithoutNull(@)]
                /\ \A i \in 1..Len(heap) : heap'[i] = heap[i]]_vars
    /\ [](\A r \in {last, prev} :
             (Returns(r) /\ "openApiSchema" \in DOMAIN r.result) =>
                LET defs == Queries[r.query].defs
                IN \A i \in Operations(defs) :
                      \A j \in 1..Len(defs[i].vars) :
                         LET t == defs[i].vars[j].type
                             type == ParametersOf(r, defs[i].name)[j].schema.type
                         IN /\ (t.k = "NonNull"
                                  /\ KindOf(ofType(t)) = "InputObject")
                               => type = TStr("object")
                            /\ KindOf(t) = "InputObject"
                               => type = TArr(<<TStr("object"), TStr("null")>>))

\* $f: Filter! in one call and $f: Filter in the call before
C11_Witness ==
    /\ last.query = 24 /\ Returns(last) /\ "openApiSchema" \in DOMAIN last.result
    /\ ParametersOf(last, "V")[2].schema.type = TStr("object")
    /\ prev.query = 17 /\ Returns(prev) /\ "openApiSchema" \in DOMAIN prev.result
    /\ ParametersOf(prev, "A")[2].schema.type
          = TArr(<<TStr("object"), TStr("null")>>)

\* the call r returned a document
Succeeded(r) == Returns(r) /\ "openApiSchema" \in DOMAIN r.result

\* the key a field is stored under
SelectionKey(s) == IF s.alias # "" THEN s.alias ELSE s.name

\* the keys of the fields among the selections sels
FieldKeys(sels) ==
    {SelectionKey(sels[i]) : i \in {j \in 1..Len(sels) : sels[j].kind = "Field"}}

\* the keys of the 200 response schema of the path of operation name
ResponseKeys(r, name) ==
    DOMAIN r.result.openApiSchema.paths[PathKey(name)].schema[1].properties[1]

\* C12: a returned document has one path per named operation, "/" and its
\* name, and every field selected at the top level of an operation is in
\* the response schema of that operation and in that of no other operation
\* (unless the other operation selects a field of that key as well)
C12_OnePathPerOperation ==
    \A r \in {last, prev} :
        Succeeded(r) =>
            LET defs == Queries[r.query].defs
                ops == Operations(defs)
            IN /\ DOMAIN r.result.openApiSchema.paths
                     = {PathKey(defs[i].name) : i \in ops}
               /\ \A i \in ops :
                     /\ FieldKeys(defs[i].sels)
                           \subseteq ResponseKeys(r, defs[i].name)
                     /\ \A j \in ops \ {i} :
                           FieldKeys(defs[i].sels)
                              \cap ResponseKeys(r, defs[j].name)
                           \subseteq FieldKeys(InlineSelections(defs,
                                                                defs[j].sels))

\* the node a returned schema holds for a selection set has no property but
\* the fields of that selection set, and so on below; sels has its spreads
\* written out, and tree was unfolded with the given fuel
RECURSIVE NoForeignFields(_, _, _)
NoForeignFields(sels, tree, fuel) ==
    \/ fuel < 4
    \/ LET node == tree[1]
           direct == node.properties # <<>>
           props == IF direct THEN node.properties[1]
                    ELSE IF node.items # <<>> /\ node.items[1].properties # <<>>
                    THEN node.items[1].properties[1]
                    ELSE <<>>
       IN /\ DOMAIN props \subseteq FieldKeys(sels)
          /\ \A i \in 1..Len(sels) :
                (/\ sels[i].kind = "Field"
                 /\ sels[i].sels # <<>>
                 /\ SelectionKey(sels[i]) \in DOMAIN props)
                   => NoForeignFields(sels[i].sels,
                                      props[SelectionKey(sels[i])],
                                      IF direct THEN fuel - 2 ELSE fuel - 3)

\* C13: once the leave of a fragment definition has stored its node in the
\* fragment table no later event changes the entry, and no node of a
\* returned schema holds a field that its own selection set, spreads
\* written out, does not select
C13_FragmentsAreCopied ==
    /\ [][(pc = "walking" /\ pc' = "walking") =>
             \A n \in DOMAIN fragments :
                /\ n \in DOMAIN fragments'
                /\ Tree(heap', fragments'[n], MaxUnfold)
                      = Tree(heap, fragments[n], MaxUnfold)]_vars
    /\ [](\A r \in {last, prev} :
             Succeeded(r) =>
                LET defs == Queries[r.query].defs
                IN \A i \in Operations(defs) :
                      NoForeignFields(
                         InlineSelections(defs, defs[i].sels),
                         r.result.openApiSchema.paths[PathKey(defs[i].name)]
                            .schema,
                         MaxUnfold))

\* event i enters a node with a selection set that the walk has not left
\* when it stands before event p
OpenAt(i, p) ==
    /\ i < p
    /\ events[i].phase = "enter"
    /\ events[i].kind \in {"OperationDefinition", "FragmentDefinition",
                           "Field", "InlineFragment"}
    /\ ~(events[i + 1].phase = "leave" /\ events[i + 1].loc = events[i].loc)
    /\ \A j \in (i + 1)..(p - 1) :
          ~(events[j].phase = "leave" /\ events[j].loc = events[i].loc)

\* the nodes whose selection set is open, innermost first
RECURSIVE OpenNodes(_, _)
OpenNodes(i, p) ==
    IF i = 0 THEN <<>>
    ELSE (IF OpenAt(i, p) THEN <<events[i].loc>> ELSE <<>>)
         \o OpenNodes(i - 1, p)

\* C14: during a walk the frames of the stack are those of the nodes whose
\* selection set is open, innermost on top: each frame pushed is popped when
\* the walk leaves its node; and a Field leave pops the frame of the field
\* left and nothing else
C14_StackInvariant ==
    /\ []((pc = "walking" /\ error = "") =>
             [i \in 1..Len(currentSelection) |-> currentSelection[i].node]
                = OpenNodes(IF pos > Len(events) THEN Len(events) ELSE pos - 1,
                            pos))
    /\ [][(AtEvent("Field", "leave") /\ pc' = "walking") =>
             IF Head(currentSelection).node = events[pos].loc
             THEN currentSelection' = Tail(currentSelection)
             ELSE currentSelection' = currentSelection]_vars

\* a field of this type gets a node to be filled: an object, a union, or a
\* list of objects or unions
IsContainerType(t) ==
    LET type == IF t.k = "NonNull" THEN ofType(t) ELSE t
        item == IF type.k # "List" THEN type
                ELSE IF ofType(type).k = "NonNull" THEN ofType(ofType(type))
                ELSE ofType(type)
    IN KindOf(item) \in {"Object", "Union"}

\* the node of a frame with the keys of its container
FrameView(h, frame) == Tree(h, frame.openApiType, 3)

\* C15: a Field enter stores the mapped node under the alias of the field,
\* or its name, in the container of the frame on top of the stack
\* (properties of an object, items.properties of an array of objects) and
\* changes the node of no other frame; it pushes a frame for the new node
\* exactly when the node is an object, a union or an array of either
C15_FieldEnterFillsTopFrame ==
    [][(AtEvent("Field", "enter") /\ pc' = "walking") =>
          LET node == events[pos]
              key == IF node.alias # "" THEN node.alias ELSE node.name
              top == Head(currentSelection).openApiType
              container == IF isOfTypeOrContains(heap[top].type, "object")
                           THEN heap[top].properties
                           ELSE heap[heap[top].items].properties
              new == heap'[container].map[key]
          IN /\ key \in DOMAIN heap'[container].map
             /\ new > Len(heap)
             /\ Tree(heap', new, MaxUnfold) = <<cur'.mapped[1].node>>
             /\ cur'.mapped[1].fieldDef = node.fieldDef
             /\ heap'[top] = heap[top]
             /\ \A k \in DOMAIN heap[container].map \ {key} :
                   heap'[container].map[k] = heap[container].map[k]
             /\ \A i \in 2..Len(currentSelection) :
                   FrameView(heap', currentSelection[i])
                      = FrameView(heap, currentSelection[i])
             /\ currentSelection' =
                   IF IsContainerType(node.fieldDef.type)
                   THEN <<Frame(node.loc, new)>> \o currentSelection
                   ELSE currentSelection]_vars

\* the callback gives a usable node for the name
Resolvable(typeName) == Callback(onUnknownScalar, typeName) # <<>>

\* C16: when the walk needs a scalar without builtin mapping that is in the
\* cache, the cached node is returned and the callback is not called; when
\* it is not in the cache the callback is called once and a usable result
\* is stored and returned; so on one instance the callback is called at
\* most once for a name it resolves
C16_ScalarMemoization ==
    /\ [](\A n \in DOMAIN invoked : Resolvable(n) => invoked[n] <= 1)
    /\ [][(NeededScalar # "" /\ NeededScalar \in DOMAIN scalarConfig) =>
             /\ invoked' = invoked
             /\ pc' = "walking" =>
                   /\ scalarConfig' = scalarConfig
                   /\ rec' # <<>> => Head(rec').ret = scalarConfig[NeededScalar]]_vars
    /\ [][(/\ NeededScalar # ""
           /\ NeededScalar \notin DOMAIN scalarConfig
           /\ Resolvable(NeededScalar)) =>
             /\ invoked' = Invoked(<<NeededScalar>>)
             /\ pc' = "walking" =>
                   /\ DOMAIN scalarConfig'
                         = DOMAIN scalarConfig \cup {NeededScalar}
                   /\ scalarConfig'[NeededScalar] > Len(heap)
                   /\ rec' # <<>> => Head(rec').ret = scalarConfig'[NeededScalar]]_vars

\* two calls have selected Date fields and the resolver was called once
C16_Witness ==
    /\ prev.query = 6 /\ Succeeded(prev)
    /\ last.query = 6 /\ Succeeded(last)
    /\ prev.cache0 = <<>>
    /\ invoked = [Date |-> 1]

\* C17: the frame a fragment definition enter pushes holds a union without
\* variants when the type of the fragment is a union or an interface, and
\* an object without properties for every other type
C17_FragmentFrame ==
    [][AtEvent("FragmentDefinition", "enter") =>
          LET node == events[pos]
              new == heap'[Head(currentSelection').openApiType]
          IN /\ currentSelection'
                   = <<Frame(node.loc, Head(currentSelection').openApiType)>>
                        \o currentSelection
             /\ Head(currentSelection').openApiType > Len(heap)
             /\ IF KindOf(node.type) \in {"Union", "Interface"}
                THEN /\ new.anyOf # 0
                     /\ heap'[new.anyOf].elems = <<>>
                     /\ new.properties = 0
                ELSE /\ new.anyOf = 0
                     /\ new.properties # 0
                     /\ heap'[new.properties].map = <<>>
                     /\ isOfTypeOrContains(new.type, "object")]_vars

\* the next step is one of the input type mapper: its first call for a
\* variable, a recursive call, or a return to the activation that called
MapperStep ==
    \/ AtEvent("VariableDefinition", "enter")
    \/ pc = "walking" /\ rec # <<>> /\ ~(Len(rec) = 1 /\ Head(rec).stage = "done")

DepthLimitError == <<"Error", "depth limit exceeded">>

\* the depth of the call the next step makes, -1 if it makes none
CallDepth ==
    IF AtEvent("VariableDefinition", "enter") THEN 0
    ELSE IF pc = "walking" /\ rec # <<>> /\ Head(rec).stage # "done"
    THEN Head(rec).depth + 1
    ELSE -1

\* C18, failure mode: a call of the input type mapper either returns a node
\* or fails with the depth-limit error, so a mapping that ends the walk has
\* thrown that error and no other
C18_FailsOnlyByDepthLimit ==
    [][(MapperStep /\ pc' # "walking") => last'.thrown = DepthLimitError]_vars

\* C18: the input type mapper terminates on every input type, also on
\* input objects that refer to themselves: the mapping of a variable ends,
\* each activation is one deeper than the one that called it, no call is
\* made at a depth above 51, and a call that does not return a node fails
\* with the depth-limit error, made at depth 51, or with the
\* UnknownScalarError of a scalar nobody resolves
C18_InputMapperTerminates ==
    /\ [](/\ Len(rec) <= DepthLimit + 1
          /\ \A i \in 1..Len(rec) : rec[i].depth = Len(rec) - i
          /\ CallDepth <= DepthLimit + 1)
    /\ [][(MapperStep /\ pc' # "walking") =>
             /\ pc' = "ready"
             /\ \/ last'.thrown = DepthLimitError /\ CallDepth = DepthLimit + 1
                \/ /\ last'.thrown = <<"UnknownScalarError", NeededScalar>>
                   /\ Unresolved(NeededScalar)]_vars
    /\ [][(MapperStep /\ CallDepth = DepthLimit + 1) =>
             last'.thrown = DepthLimitError]_vars
    /\ (rec # <<>>) ~> (rec = <<>>)

\* the mapping of $c: Chain, Chain an input object with a field of type
\* Chain, has ended with the depth-limit error
C18_Witness ==
    /\ last.query = 23
    /\ last.thrown = DepthLimitError
    /\ rec = <<>>

\* C19: when the walk handles the enter of a fragment spread, the leave of
\* the definition of that fragment has stored its node in the fragment table
C19_DefinitionBeforeUse ==
    AtEvent("FragmentSpread", "enter") =>
        /\ events[pos].name \in DOMAIN fragments
        /\ \E i \in 1..(pos - 1) :
              /\ events[i].kind = "FragmentDefinition"
              /\ events[i].phase = "leave"
              /\ events[i].name = events[pos].name

\* C20: a node stored in the scalar cache keeps its content: no step of a
\* walk and no call changes an entry, a step only adds entries for names
\* the cache has not got
C20_CacheEntriesAreStable ==
    [][pc # "new" =>
          \A n \in DOMAIN scalarConfig :
             /\ n \in DOMAIN scalarConfig'
             /\ Tree(heap', scalarConfig'[n], MaxUnfold)
                   = Tree(heap, scalarConfig[n], MaxUnfold)]_vars

=============================================================================
